---- MODULE Spec2Model ----
(***************************************************************************)
(* Model of chainedcache/chainedcache.py: the store classes DictCache,     *)
(* FileCache and S3Cache, BaseCache.get_put, and ChainedCache, which fans  *)
(* get/put/remove out over an ordered list of stores.                      *)
(*                                                                         *)
(* Tier indices are 0-based as in the code: caches[0] is the nearest tier. *)
(* A call is one atomic step (the program is single-threaded); the         *)
(* per-tier calls it issues are recorded, in order, in last.log, and the   *)
(* Return step hands its outcome to the caller before the next call.       *)
(***************************************************************************)
EXTENDS Integers, Sequences, FiniteSets, TLC

\* Longest chain explored.
MaxTiers == 3

Keys == {"k1", "k2"}

\* Python's None, the "absent" result of get.
None == <<"None">>

\* Stored payloads: text values; "" is a valid value that is falsy in Python.
Vals == {<<"str", "">>, <<"str", "a">>}

\* The botocore StreamingBody that get_object(...)['Body'] returns over raw.
Body(raw) == <<"StreamingBody", raw>>

\* Python truthiness of a value returned by get ("if not data").
Falsy(data) == data = None \/ data = <<"str", "">>

VARIABLES
    caches,   \* ChainedCache.caches: tier index -> store configuration
    store,    \* tier index -> content of the store's backing resource
    pre,      \* store as it was when the most recent call began
    last,     \* the most recent call and its outcome
    shadow,   \* key -> value map of the calls so far, while they all went
              \* to one target and none raised
    threads,  \* caller -> where the caller is in the chain call it is making
    landed    \* tier index -> key -> the caller whose put or remove was the
              \* most recent to take effect there

vars == <<caches, store, pre, last, shadow, threads, landed>>

N == Cardinality(DOMAIN caches)
Tiers == DOMAIN caches

Empty == [k \in Keys |-> None]

----------------------------------------------------------------------------
(* Transformers: put_transformer / get_transformer are optional callables  *)
(* handed to FileCache and S3Cache.                                        *)

\* The callables tried here.  "read" is lambda body: body.read(), for the
\* StreamingBody an S3Cache fetches.  "encode" wraps any value; "decode" is
\* its inverse and rejects what encode did not produce; "read_decode" reads
\* a body and decodes what it read; "encode_nonempty" is encode, except
\* that it refuses "".
Call(t, x) ==
    LET ok(y) == [ret |-> y, exc |-> "None"]
        err(e) == [ret |-> None, exc |-> e]
        dec(y) == IF y[1] = "enc" THEN ok(y[2]) ELSE err("ValueError")
    IN  CASE t = "read" ->
                IF x[1] = "StreamingBody" THEN ok(x[2]) ELSE err("AttributeError")
          [] t = "encode" -> ok(<<"enc", x>>)
          [] t = "encode_nonempty" ->
                IF x = <<"str", "">> THEN err("ValueError") ELSE ok(<<"enc", x>>)
          [] t = "decode" -> dec(x)
          [] t = "read_decode" ->
                IF x[1] = "StreamingBody" THEN dec(x[2]) ELSE err("AttributeError")

\* "if callable(self.<name>): data = self.<name>(data)"; t = "None": the
\* transformer is unset and the value passes through.  fx records the
\* application and its argument.
Transform(name, t, x) ==
    IF t = "None" THEN [ret |-> x, exc |-> "None", fx |-> <<>>]
    ELSE [ret |-> Call(t, x).ret, exc |-> Call(t, x).exc, fx |-> << <<name, x>> >>]

----------------------------------------------------------------------------
(* Failures of the backing resource.  A fault <<op, i>> makes the I/O that *)
(* op performs on tier i raise before it changes anything; NoFault:        *)
(* nothing fails.                                                          *)

NoFault == <<>>

\* What a call hands back: the backing content afterwards (c, of one store)
\* or the stores afterwards (store, of all), the returned value, the
\* exception that left the call ("None": it returned), the per-tier calls
\* issued, the arguments of the generator's invocations, and in fx the
\* messages printed and transformers applied, in order.
Result(c, ret, exc) == [c |-> c, ret |-> ret, exc |-> exc, fx |-> <<>>]

Outcome(st, ret, log, exc) ==
    [store |-> st, ret |-> ret, log |-> log, exc |-> exc, gen |-> <<>>, fx |-> <<>>]

Raised(r) == r.exc # "None"

\* r, after the effects fx that came before it.
Fx(fx, r) == [r EXCEPT !.fx = fx \o @]

\* BaseCache.message: prints when self.verbose is set.
BaseCache_message(cfg) == IF cfg.verbose THEN << <<"message", None>> >> ELSE <<>>

----------------------------------------------------------------------------
(* DictCache: c is self.cache.                                             *)

DictCache_put(cfg, c, key, data) ==
    Fx(BaseCache_message(cfg), Result([c EXCEPT ![key] = data], None, "None"))

\* Faulty variant of DictCache_get: the value is handed back from inside the
\* verbose branch only.
DictCache_get_if_verbose(cfg, c, key) ==
    Fx(BaseCache_message(cfg), Result(c, IF cfg.verbose THEN c[key] ELSE None, "None"))

DictCache_get(cfg, c, key) ==
    Fx(BaseCache_message(cfg), Result(c, c[key], "None"))

\* Faulty variant of DictCache_remove: "self.cache.clear()", which drops
\* every key.
DictCache_remove_clear(cfg, c, key) ==
    Fx(BaseCache_message(cfg), Result([k \in DOMAIN c |-> None], None, "None"))

\* Faulty variant of DictCache_remove: "del self.cache[key]", which raises
\* for a key that is not there.
DictCache_remove_del(cfg, c, key) ==
    Fx(BaseCache_message(cfg),
       IF c[key] = None THEN Result(c, None, "KeyError")
       ELSE Result([c EXCEPT ![key] = None], None, "None"))

DictCache_remove(cfg, c, key) ==
    Fx(BaseCache_message(cfg), Result([c EXCEPT ![key] = None], None, "None"))

(* FileCache: c[key] is the content of the file filename(key), None when   *)
(* no such file exists.  io: the file system refuses the operation.        *)

\* Faulty variant of FileCache_put: the file is opened for writing, and so
\* emptied, before the put_transformer runs.
FileCache_put_opens_first(cfg, c, key, data, io) ==
    LET t == Transform("put_transformer", cfg.put_transformer, data)
    IN  IF io THEN Fx(BaseCache_message(cfg), Result(c, None, "IOError"))
        ELSE IF Raised(t)
        THEN Fx(BaseCache_message(cfg) \o t.fx,
                Result([c EXCEPT ![key] = <<"str", "">>], None, t.exc))
        ELSE Fx(BaseCache_message(cfg) \o t.fx,
                Result([c EXCEPT ![key] = t.ret], None, "None"))

FileCache_put(cfg, c, key, data, io) ==
    LET t == Transform("put_transformer", cfg.put_transformer, data)
    IN  IF Raised(t) THEN Fx(t.fx, Result(c, None, t.exc))
        ELSE Fx(t.fx \o BaseCache_message(cfg),
                IF io THEN Result(c, None, "IOError")
                ELSE Result([c EXCEPT ![key] = t.ret], None, "None"))

FileCache_get(cfg, c, key, io) ==
    IF c[key] = None THEN Fx(BaseCache_message(cfg), Result(c, None, "None"))
    ELSE IF io THEN Fx(BaseCache_message(cfg), Result(c, None, "IOError"))
    ELSE LET t == Transform("get_transformer", cfg.get_transformer, c[key])
         IN  Fx(BaseCache_message(cfg) \o t.fx, Result(c, t.ret, t.exc))

\* Faulty variant of FileCache_remove: the isfile test is inverted, so an
\* existing file is left in place.
FileCache_remove_inverted(cfg, c, key, io) ==
    Fx(BaseCache_message(cfg), Result(c, None, "None"))

FileCache_remove(cfg, c, key, io) ==
    Fx(BaseCache_message(cfg),
       IF c[key] # None
       THEN IF io THEN Result(c, None, "IOError")
            ELSE Result([c EXCEPT ![key] = None], None, "None")
       ELSE Result(c, None, "None"))

(* S3Cache: c[key] is the body of the object bucket_key(key), None when    *)
(* the bucket has no such object.  io: the service call fails for a reason *)
(* other than a missing key.                                               *)

\* self.s3.get_object(...)['Body']
s3_get_object(c, key, io) ==
    IF io THEN Result(c, None, "ClientError")
    ELSE IF c[key] = None THEN Result(c, None, "NoSuchKey")
    ELSE Result(c, Body(c[key]), "None")

\* self.s3.put_object(Body=data, ...)
s3_put_object(c, key, data, io) ==
    IF io THEN Result(c, None, "ClientError")
    ELSE Result([c EXCEPT ![key] = data], None, "None")

\* self.s3.delete_object(...): deleting a missing object succeeds.
s3_delete_object(c, key, io) ==
    IF io THEN Result(c, None, "ClientError")
    ELSE Result([c EXCEPT ![key] = None], None, "None")

S3Cache_put(cfg, c, key, data, io) ==
    LET t == Transform("put_transformer", cfg.put_transformer, data)
    IN  IF Raised(t) THEN Fx(t.fx, Result(c, None, t.exc))
        ELSE Fx(t.fx \o BaseCache_message(cfg), s3_put_object(c, key, t.ret, io))

\* Faulty variant of S3Cache_get: every failure of the service call is
\* taken for a missing key.
S3Cache_get_catch_all(cfg, c, key, io) ==
    LET r == s3_get_object(c, key, io)
    IN  IF Raised(r) THEN Fx(BaseCache_message(cfg), Result(c, None, "None"))
        ELSE LET t == Transform("get_transformer", cfg.get_transformer, r.ret)
             IN  Fx(BaseCache_message(cfg) \o t.fx, Result(c, t.ret, t.exc))

\* Faulty variant of S3Cache_get: NoSuchKey is not caught.
S3Cache_get_uncaught(cfg, c, key, io) ==
    LET r == s3_get_object(c, key, io)
    IN  IF Raised(r) THEN r
        ELSE LET t == Transform("get_transformer", cfg.get_transformer, r.ret)
             IN  Fx(BaseCache_message(cfg) \o t.fx, Result(c, t.ret, t.exc))

S3Cache_get(cfg, c, key, io) ==
    LET r == s3_get_object(c, key, io)
    IN  IF r.exc = "NoSuchKey" THEN Fx(BaseCache_message(cfg), Result(c, None, "None"))
        ELSE IF Raised(r) THEN r
        ELSE LET t == Transform("get_transformer", cfg.get_transformer, r.ret)
             IN  Fx(BaseCache_message(cfg) \o t.fx, Result(c, t.ret, t.exc))

S3Cache_remove(cfg, c, key, io) ==
    Fx(BaseCache_message(cfg), s3_delete_object(c, key, io))

(* Dynamic dispatch of cache.put / cache.get / cache.remove on a store.    *)

Cache_put(cfg, c, key, data, io) ==
    CASE cfg.kind = "dict" -> DictCache_put(cfg, c, key, data)
      [] cfg.kind = "file" -> FileCache_put(cfg, c, key, data, io)
      [] cfg.kind = "s3"   -> S3Cache_put(cfg, c, key, data, io)

Cache_get(cfg, c, key, io) ==
    CASE cfg.kind = "dict" -> DictCache_get(cfg, c, key)
      [] cfg.kind = "file" -> FileCache_get(cfg, c, key, io)
      [] cfg.kind = "s3"   -> S3Cache_get(cfg, c, key, io)

Cache_remove(cfg, c, key, io) ==
    CASE cfg.kind = "dict" -> DictCache_remove(cfg, c, key)
      [] cfg.kind = "file" -> FileCache_remove(cfg, c, key, io)
      [] cfg.kind = "s3"   -> S3Cache_remove(cfg, c, key, io)

\* Which calls reach I/O that can fail: none in DictCache; open() and
\* os.remove() in FileCache, where get and remove touch the file only when
\* it exists; every boto3 call in S3Cache.
CanFail(cfg, op, present) ==
    CASE cfg.kind = "dict" -> FALSE
      [] cfg.kind = "file" -> op = "put" \/ present
      [] cfg.kind = "s3"   -> TRUE

\* The faults worth trying for a call that issues ops on tiers.
Faults(ops, tiers) ==
    {NoFault} \cup {f \in ops \X tiers : caches[f[2]].kind # "dict"}

\* The call that gave out met the fault: it issued the faulted per-tier
\* call, and that call reached its I/O.
Meets(fault, st, key, out) ==
    /\ \E e \in 1..Len(out.log) : out.log[e] = fault
    /\ CanFail(caches[fault[2]], fault[1], st[fault[2]][key] # None)

----------------------------------------------------------------------------
(* Cache objects.  A store object is configured by cfg and backed by       *)
(* st[at]; a ChainedCache object holds its members in caches, a sequence   *)
(* of cache objects (stores, or chains in turn).                           *)

StoreObj(cfg, i) == [kind |-> cfg.kind, cfg |-> cfg, at |-> i, caches |-> <<>>]

\* ChainedCache.__init__ keeps the given list and sets nothing else.
ChainedCache_init(members) ==
    [kind |-> "chain", cfg |-> [kind |-> "chain"], at |-> -1, caches |-> members]

Lift(st, i, op, r) ==
    [Outcome([st EXCEPT ![i] = r.c], r.ret, << <<op, i>> >>, r.exc) EXCEPT !.fx = r.fx]

\* first, then rest, which ran on the stores that first left.
Then(first, rest) == [rest EXCEPT !.log = first.log \o @, !.fx = first.fx \o @]

\* cache.get(key), cache.put(key, data), cache.remove(key) on a store object.
Leaf_get(cache, st, key, fault) ==
    Lift(st, cache.at, "get",
         Cache_get(cache.cfg, st[cache.at], key, fault = <<"get", cache.at>>))

Leaf_put(cache, st, key, data, fault) ==
    Lift(st, cache.at, "put",
         Cache_put(cache.cfg, st[cache.at], key, data, fault = <<"put", cache.at>>))

Leaf_remove(cache, st, key, fault) ==
    Lift(st, cache.at, "remove",
         Cache_remove(cache.cfg, st[cache.at], key, fault = <<"remove", cache.at>>))

(* A member store used directly: caches[i].get / put / remove.             *)

Store_get(st, i, key, fault) == Leaf_get(StoreObj(caches[i], i), st, key, fault)

Store_put(st, i, key, data, fault) ==
    Leaf_put(StoreObj(caches[i], i), st, key, data, fault)

Store_remove(st, i, key, fault) == Leaf_remove(StoreObj(caches[i], i), st, key, fault)

----------------------------------------------------------------------------
(* ChainedCache.  Positions in self.caches are 0-based as in the code.     *)

\* Faulty variant of Enumerate: the scan starts at the farthest tier.
Enumerate_farthest_first(n) == [j \in 1..n |-> n - j]

\* enumerate(self.caches): positions 0 .. n-1 in order.
Enumerate(n) == [j \in 1..n |-> j - 1]

\* Faulty variant of Reversed: the fan-out starts at the nearest tier.
Reversed_nearest_first(n) == [j \in 1..n |-> j - 1]

\* reversed(self.caches): positions n-1 .. 0.
Reversed(n) == [j \in 1..n |-> n - j]

\* Faulty variant of Range: the bound is shifted onto the hit tier itself.
Range_through_hit(idx) == [j \in 1..(idx + 1) |-> j - 1]

\* range(idx): 0 .. idx-1.
Range(idx) == [j \in 1..idx |-> j - 1]

\* Faulty variant of FanOut: a tier's exception is caught and the loop goes
\* on to the remaining tiers.
RECURSIVE FanOut_goes_on(_, _, _, _, _, _, _)
FanOut_goes_on(self, st, order, op, key, data, fault) ==
    IF order = <<>> THEN Outcome(st, None, <<>>, "None")
    ELSE LET cache == self.caches[Head(order) + 1]
             r == CASE cache.kind = "chain" ->
                         FanOut_goes_on(cache, st, Reversed(Len(cache.caches)), op,
                                        key, data, fault)
                    [] cache.kind # "chain" /\ op = "put" ->
                         Leaf_put(cache, st, key, data, fault)
                    [] OTHER -> Leaf_remove(cache, st, key, fault)
         IN  Then(r, FanOut_goes_on(self, r.store, Tail(order), op, key, data, fault))

\* A loop that applies put (op = "put") or remove to the members at the
\* positions of order, one after the other, and stops at the first call
\* that raises. A member that is a chain applies it to its own members,
\* farthest first, as its put and its remove do.
RECURSIVE FanOut(_, _, _, _, _, _, _)
FanOut(self, st, order, op, key, data, fault) ==
    IF order = <<>> THEN Outcome(st, None, <<>>, "None")
    ELSE LET cache == self.caches[Head(order) + 1]
             after(r) ==
                 IF Raised(r) THEN r
                 ELSE Then(r, FanOut(self, r.store, Tail(order), op, key, data, fault))
         IN  after(CASE cache.kind = "chain" ->
                          FanOut(cache, st, Reversed(Len(cache.caches)), op, key, data,
                                 fault)
                     [] cache.kind # "chain" /\ op = "put" ->
                          Leaf_put(cache, st, key, data, fault)
                     [] OTHER -> Leaf_remove(cache, st, key, fault))

\* get after its scan s: the backfill of the members nearer than the hit,
\* and the return.
Backfill(self, s, key, fault) ==
    IF Raised(s) THEN Then(s, Outcome(s.store, None, <<>>, s.exc))
    ELSE IF s.data # None
    THEN LET after(b) == Then(s, [b EXCEPT !.ret = IF Raised(b) THEN None ELSE s.data])
         IN  after(FanOut(self, s.store, Range(s.idx), "put", key, s.data, fault))
    ELSE Then(s, Outcome(s.store, s.data, <<>>, "None"))

\* Faulty variant of Scan: the loop has no break, so it queries every
\* member and keeps the answer of the farthest one that has the key.
RECURSIVE Scan_no_break(_, _, _, _, _, _)
Scan_no_break(self, st, order, key, fault, idx) ==
    IF order = <<>>
    THEN [data |-> None, idx |-> idx, store |-> st, log |-> <<>>, exc |-> "None",
          fx |-> <<>>]
    ELSE LET i == Head(order)
             cache == self.caches[i + 1]
             r == IF cache.kind = "chain"
                  THEN Backfill(cache,
                                Scan_no_break(cache, st, Enumerate(Len(cache.caches)),
                                              key, fault, -1),
                                key, fault)
                  ELSE Leaf_get(cache, st, key, fault)
             rest == Scan_no_break(self, r.store, Tail(order), key, fault, i)
         IN  IF Raised(r)
             THEN [data |-> r.ret, idx |-> i, store |-> r.store, log |-> r.log,
                   exc |-> r.exc, fx |-> r.fx]
             ELSE IF Raised(rest) \/ rest.data # None \/ r.ret = None
             THEN Then(r, rest)
             ELSE Then(r, [rest EXCEPT !.data = r.ret, !.idx = i])

\* Faulty variant of Scan: a member that is a chain is scanned, but its own
\* backfill is left out.
RECURSIVE Scan_inner_scan_only(_, _, _, _, _, _)
Scan_inner_scan_only(self, st, order, key, fault, idx) ==
    IF order = <<>>
    THEN [data |-> None, idx |-> idx, store |-> st, log |-> <<>>, exc |-> "None",
          fx |-> <<>>]
    ELSE LET i == Head(order)
             cache == self.caches[i + 1]
             s == Scan_inner_scan_only(cache, st, Enumerate(Len(cache.caches)), key,
                                       fault, -1)
             r == IF cache.kind = "chain"
                  THEN Then(s, Outcome(s.store, IF Raised(s) THEN None ELSE s.data,
                                       <<>>, s.exc))
                  ELSE Leaf_get(cache, st, key, fault)
         IN  IF Raised(r) \/ r.ret # None
             THEN [data |-> r.ret, idx |-> i, store |-> r.store, log |-> r.log,
                   exc |-> r.exc, fx |-> r.fx]
             ELSE Then(r, Scan_inner_scan_only(self, r.store, Tail(order), key, fault, i))

\* The scan loop of get: query the members at the positions of order until
\* one answers. idx is the loop variable as the loop leaves it (-1: never
\* bound); store: the stores as the scan leaves them. A member that is a
\* chain answers with its own get: its scan, then its backfill.
RECURSIVE Scan(_, _, _, _, _, _)
Scan(self, st, order, key, fault, idx) ==
    IF order = <<>>
    THEN [data |-> None, idx |-> idx, store |-> st, log |-> <<>>, exc |-> "None",
          fx |-> <<>>]
    ELSE LET i == Head(order)
             cache == self.caches[i + 1]
             after(r) ==
                 IF Raised(r) \/ r.ret # None
                 THEN [data |-> r.ret, idx |-> i, store |-> r.store, log |-> r.log,
                       exc |-> r.exc, fx |-> r.fx]
                 ELSE Then(r, Scan(self, r.store, Tail(order), key, fault, i))
         IN  after(IF cache.kind = "chain"
                   THEN Backfill(cache,
                                 Scan(cache, st, Enumerate(Len(cache.caches)), key,
                                      fault, -1),
                                 key, fault)
                   ELSE Leaf_get(cache, st, key, fault))

\* Faulty variant of ChainedCache_get: the backfill loop is not guarded by
\* "if data is not None" and runs after a scan that found nothing.
ChainedCache_get_unguarded(self, st, key, fault) ==
    LET s == Scan(self, st, Enumerate(Len(self.caches)), key, fault, -1)
    IN  IF Raised(s) THEN Then(s, Outcome(s.store, None, <<>>, s.exc))
        ELSE IF s.idx < 0 THEN Then(s, Outcome(s.store, None, <<>>, "NameError"))
        ELSE LET b == FanOut(self, s.store, Range(s.idx), "put", key, s.data, fault)
             IN  Then(s, [b EXCEPT !.ret = IF Raised(b) THEN None ELSE s.data])

ChainedCache_get(self, st, key, fault) ==
    Backfill(self, Scan(self, st, Enumerate(Len(self.caches)), key, fault, -1), key,
             fault)

ChainedCache_put(self, st, key, data, fault) ==
    FanOut(self, st, Reversed(Len(self.caches)), "put", key, data, fault)

\* Faulty variant of ChainedCache_remove: only the nearest tier is cleared.
ChainedCache_remove_nearest_only(self, st, key, fault) ==
    FanOut(self, st, Range(IF Len(self.caches) > 0 THEN 1 ELSE 0), "remove", key,
           None, fault)

ChainedCache_remove(self, st, key, fault) ==
    FanOut(self, st, Reversed(Len(self.caches)), "remove", key, None, fault)

\* self.get(key), self.put(key, data), self.remove(key) on a cache object,
\* a store or a chain.
Tier_get(cache, st, key, fault) ==
    IF cache.kind = "chain" THEN ChainedCache_get(cache, st, key, fault)
    ELSE Leaf_get(cache, st, key, fault)

Tier_put(cache, st, key, data, fault) ==
    IF cache.kind = "chain" THEN ChainedCache_put(cache, st, key, data, fault)
    ELSE Leaf_put(cache, st, key, data, fault)

Tier_remove(cache, st, key, fault) ==
    IF cache.kind = "chain" THEN ChainedCache_remove(cache, st, key, fault)
    ELSE Leaf_remove(cache, st, key, fault)

----------------------------------------------------------------------------
(* BaseCache.get_put, inherited by every store and by the chain.  A target *)
(* is the chain, <<"chain">>, or member store i used alone, <<"store", i>>.*)

Chain == <<"chain">>

Member(i) == <<"store", i>>

\* The cache object behind a target: ChainedCache(caches), or caches[i].
Target(t) ==
    IF t = Chain
    THEN ChainedCache_init([j \in 1..N |-> StoreObj(caches[j - 1], j - 1)])
    ELSE StoreObj(caches[t[2]], t[2])

Self_get(t, st, key, fault) == Tier_get(Target(t), st, key, fault)

Self_put(t, st, key, data, fault) == Tier_put(Target(t), st, key, data, fault)

Self_remove(t, st, key, fault) == Tier_remove(Target(t), st, key, fault)

\* Faulty variant of BaseCache_get_put: the generated value is returned
\* but not put.
BaseCache_get_put_no_put(self, st, key, g, fault) ==
    LET r == Tier_get(self, st, key, fault)
    IN  IF Raised(r) THEN r
        ELSE IF Falsy(r.ret) THEN [r EXCEPT !.ret = g, !.gen = <<key>>]
        ELSE r

\* g is the value generator(key) returns.
BaseCache_get_put(self, st, key, g, fault) ==
    LET generated(r, p) ==
            [Then(r, p) EXCEPT !.ret = IF Raised(p) THEN None ELSE g, !.gen = <<key>>]
        after(r) ==
            IF Raised(r) THEN r
            ELSE IF Falsy(r.ret)
            THEN generated(r, Tier_put(self, r.store, key, g, fault))
            ELSE r
    IN  after(Tier_get(self, st, key, fault))

----------------------------------------------------------------------------
(* The state machine.                                                      *)

\* Stores as their constructors' defaults make them: verbose, and without
\* transformers.
DictCfg ==
    [kind |-> "dict", verbose |-> TRUE, put_transformer |-> "None",
     get_transformer |-> "None"]

FileCfg ==
    [kind |-> "file", verbose |-> TRUE, put_transformer |-> "None",
     get_transformer |-> "None"]

S3Cfg(get_transformer) ==
    [kind |-> "s3", verbose |-> TRUE, put_transformer |-> "None",
     get_transformer |-> get_transformer]

\* The chain of the class's docstring, [dict_cache, file_cache, s3_cache],
\* cut or continued to n tiers and begun at its r-th store; its S3Cache
\* reads the fetched body.
Layout(n, r) ==
    [i \in 0..(n - 1) |->
        CASE (i + r) % 3 = 0 -> DictCfg
          [] (i + r) % 3 = 1 -> FileCfg
          [] (i + r) % 3 = 2 -> S3Cfg("read")]

NoCall ==
    [target |-> <<"nobody">>, op |-> "none", key |-> "", data |-> None,
     ret |-> None, exc |-> "None", fault |-> NoFault, log |-> <<>>, gen |-> <<>>,
     fx |-> <<>>]

Untracked == [ok |-> FALSE, who |-> <<"nobody">>, map |-> Empty]

\* The map a single cache would hold after the calls made so far.
Track(t, op, key, data, out) ==
    IF ~shadow.ok \/ Raised(out) \/ shadow.who \notin {<<"nobody">>, t}
    THEN Untracked
    ELSE [ok |-> TRUE, who |-> t,
          map |-> CASE op = "put" -> [shadow.map EXCEPT ![key] = data]
                    [] op = "remove" -> [shadow.map EXCEPT ![key] = None]
                    [] op = "get_put" /\ out.gen # <<>> -> [shadow.map EXCEPT ![key] = data]
                    [] OTHER -> shadow.map]

\* The stores cs, just constructed, and no call made yet.
InitStores(cs) ==
    /\ caches = cs
    /\ store = [i \in DOMAIN cs |-> Empty]
    /\ pre = store
    /\ last = NoCall
    /\ shadow = [ok |-> TRUE, who |-> <<"nobody">>, map |-> Empty]
    /\ landed = [i \in DOMAIN cs |-> [k \in Keys |-> "nobody"]]

\* One caller, whose calls are taken whole.
InitWith(cs) == InitStores(cs) /\ threads = << >>

\* Chains of up to MaxTiers tiers; the shorter the chain, the more of the
\* three starting stores are tried.
Init ==
    \E n \in 0..MaxTiers : \E r \in 0..2 :
        r <= MaxTiers - n /\ InitWith(Layout(n, r))

\* One call, from entry to return or raise.
\* A fault is an input of the step only when the call runs into it.
Do(t, op, key, data, fault, out) ==
    /\ fault = NoFault \/ Meets(fault, store, key, out)
    /\ store' = out.store
    /\ pre' = store
    /\ last' = [target |-> t, op |-> op, key |-> key, data |-> data,
                ret |-> out.ret, exc |-> out.exc, fault |-> fault,
                log |-> out.log, gen |-> out.gen, fx |-> out.fx]
    /\ shadow' = Track(t, op, key, data, out)
    /\ UNCHANGED <<caches, threads, landed>>

ChainGet ==
    /\ last = NoCall
    /\ \E key \in Keys : \E fault \in Faults({"get", "put"}, Tiers) :
            Do(Chain, "get", key, None, fault, ChainedCache_get(Target(Chain), store, key, fault))

ChainPut ==
    /\ last = NoCall
    /\ \E key \in Keys, data \in Vals : \E fault \in Faults({"put"}, Tiers) :
            Do(Chain, "put", key, data, fault, ChainedCache_put(Target(Chain), store, key, data, fault))

ChainRemove ==
    /\ last = NoCall
    /\ \E key \in Keys : \E fault \in Faults({"remove"}, Tiers) :
            Do(Chain, "remove", key, None, fault, ChainedCache_remove(Target(Chain), store, key, fault))

ChainGetPut ==
    /\ last = NoCall
    /\ \E key \in Keys, g \in Vals : \E fault \in Faults({"get", "put"}, Tiers) :
            Do(Chain, "get_put", key, g, fault,
               BaseCache_get_put(Target(Chain), store, key, g, fault))

StoreGet ==
    /\ last = NoCall
    /\ \E i \in Tiers, key \in Keys : \E fault \in Faults({"get"}, {i}) :
            Do(Member(i), "get", key, None, fault, Store_get(store, i, key, fault))

StorePut ==
    /\ last = NoCall
    /\ \E i \in Tiers, key \in Keys, data \in Vals : \E fault \in Faults({"put"}, {i}) :
            Do(Member(i), "put", key, data, fault, Store_put(store, i, key, data, fault))

StoreRemove ==
    /\ last = NoCall
    /\ \E i \in Tiers, key \in Keys : \E fault \in Faults({"remove"}, {i}) :
            Do(Member(i), "remove", key, None, fault, Store_remove(store, i, key, fault))

StoreGetPut ==
    /\ last = NoCall
    /\ \E i \in Tiers, key \in Keys, g \in Vals : \E fault \in Faults({"get", "put"}, {i}) :
            Do(Member(i), "get_put", key, g, fault,
               BaseCache_get_put(Target(Member(i)), store, key, g, fault))

\* The caller has taken the result (or caught the exception) of its call
\* and is free to make the next one.
Return ==
    /\ last # NoCall
    /\ last' = NoCall
    /\ pre' = store
    /\ UNCHANGED <<caches, store, shadow, threads, landed>>

Next ==
    \/ ChainGet
    \/ ChainPut
    \/ ChainRemove
    \/ ChainGetPut
    \/ StoreGet
    \/ StorePut
    \/ StoreRemove
    \/ StoreGetPut
    \/ Return

Spec == Init /\ [][Next]_vars

\* One store of any class, used alone; an S3Cache with its get_transformer
\* left unset or reading the fetched body.
InitStandalone ==
    \E cfg \in {DictCfg, FileCfg, S3Cfg("None"), S3Cfg("read")} :
        InitWith([i \in {0} |-> cfg])

NextStandalone ==
    \/ StoreGet
    \/ StorePut
    \/ StoreRemove
    \/ StoreGetPut
    \/ Return

SpecStandalone == InitStandalone /\ [][NextStandalone]_vars

\* Any call on a cache object: a store, or a chain.
Invoke(self, op, st, key, data, fault) ==
    CASE op = "get" -> Tier_get(self, st, key, fault)
      [] op = "put" -> Tier_put(self, st, key, data, fault)
      [] op = "remove" -> Tier_remove(self, st, key, fault)
      [] op = "get_put" -> BaseCache_get_put(self, st, key, data, fault)

\* The stores of cs, those of quiet constructed with verbose=False.
Quieted(cs, quiet) ==
    [i \in DOMAIN cs |-> IF i \in quiet THEN [cs[i] EXCEPT !.verbose = FALSE] ELSE cs[i]]

\* Chains one tier short of MaxTiers whose nearest q stores are quiet and
\* whose farther stores are verbose.
InitVerbose ==
    \E n \in 0..(MaxTiers - 1), r \in 0..2 : \E q \in 0..n :
        r < MaxTiers - n /\ InitWith(Quieted(Layout(n, r), 0..(q - 1)))

SpecVerbose == InitVerbose /\ [][Next]_vars

\* ChainedCache([caches[0], ChainedCache([caches[1], ..., caches[n-1]])]):
\* the chain of the farther stores used as the second tier of another.
Nested ==
    ChainedCache_init(<<StoreObj(caches[0], 0),
                        ChainedCache_init([j \in 1..(N - 1) |-> StoreObj(caches[j], j)])>>)

\* ChainedCache([ChainedCache([caches[0], ..., caches[n-2]]), caches[n-1]]):
\* the chain of the nearer stores used as the first tier of another.
NestedFront ==
    ChainedCache_init(<<ChainedCache_init([j \in 1..(N - 1) |-> StoreObj(caches[j - 1], j - 1)]),
                        StoreObj(caches[N - 1], N - 1)>>)

\* Chains whose nearest tier is the S3Cache: [s3_cache, dict_cache,
\* file_cache], cut to n tiers, one tier short of MaxTiers.
InitRemote == \E n \in 1..(MaxTiers - 1) : InitWith(Layout(n, 2))

SpecRemote == InitRemote /\ [][Next]_vars

----------------------------------------------------------------------------
(* Callers in flight: chain calls taken one per-tier call at a time, so    *)
(* that the calls of several callers interleave between any two per-tier   *)
(* calls.  A frame is a caller's position in ChainedCache.get / put /      *)
(* remove or BaseCache.get_put: pc names the loop it is in, todo the       *)
(* positions the loop has yet to visit, found and idx the scan's data and  *)
(* idx.                                                                    *)

Callers == {"c1", "c2"}

Idle ==
    [op |-> "none", key |-> "", data |-> None, pc |-> "idle", todo |-> <<>>,
     idx |-> -1, found |-> None, ret |-> None, exc |-> "None", gen |-> <<>>]

\* The frame on entry to op: get and get_put begin with the scan, put and
\* remove with the fan-out.
Enter(op, key, data) ==
    [Idle EXCEPT !.op = op, !.key = key, !.data = data,
                 !.pc = IF op \in {"get", "get_put"} THEN "scan" ELSE "fan",
                 !.todo = IF op \in {"get", "get_put"} THEN Enumerate(N)
                          ELSE Reversed(N)]

RECURSIVE Settle(_)

\* Faulty variant of GetReturns: get_put puts the generated value into the
\* nearest store only.
GetReturns_nearest_only(f) ==
    IF f.op = "get_put" /\ Falsy(f.found)
    THEN Settle([f EXCEPT !.pc = "fan", !.todo = Range(IF N > 0 THEN 1 ELSE 0),
                          !.gen = <<f.key>>])
    ELSE [f EXCEPT !.pc = "done", !.ret = f.found]

\* self.get(key) returns f.found: to the caller of get, or into get_put,
\* which generates and puts when the value is falsy.
GetReturns(f) ==
    IF f.op = "get_put" /\ Falsy(f.found)
    THEN Settle([f EXCEPT !.pc = "fan", !.todo = Reversed(N), !.gen = <<f.key>>])
    ELSE [f EXCEPT !.pc = "done", !.ret = f.found]

\* Faulty variant of Settle: get_put hands back the value its get found,
\* not the value it generated.
Settle_returns_found(f) ==
    IF f.todo # <<>> THEN f
    ELSE CASE f.pc = "scan" -> GetReturns([f EXCEPT !.found = None])
           [] f.pc = "backfill" -> GetReturns(f)
           [] f.pc = "fan" -> [f EXCEPT !.pc = "done", !.ret = f.found]
           [] OTHER -> f

\* The control flow between two per-tier calls: a loop with nothing left
\* to visit is left.
Settle(f) ==
    IF f.todo # <<>> THEN f
    ELSE CASE f.pc = "scan" -> GetReturns([f EXCEPT !.found = None])
           [] f.pc = "backfill" -> GetReturns(f)
           [] f.pc = "fan" ->
                [f EXCEPT !.pc = "done",
                          !.ret = IF f.op = "get_put" THEN f.data ELSE None]
           [] OTHER -> f

\* The per-tier call the frame makes next.
TierOp(f) ==
    CASE f.pc = "scan" -> "get"
      [] f.pc = "backfill" -> "put"
      [] f.pc = "fan" -> IF f.op = "remove" THEN "remove" ELSE "put"

\* Faulty variant of TierCall: the backfill does not write the value the
\* scan found but reads the hit tier again at the time of each put.
TierCall_rereads(f, st, fault) ==
    CASE f.pc = "scan" -> Store_get(st, Head(f.todo), f.key, fault)
      [] f.pc = "backfill" ->
            Store_put(st, Head(f.todo), f.key,
                      Store_get(st, f.idx, f.key, NoFault).ret, fault)
      [] f.pc = "fan" ->
            IF f.op = "remove" THEN Store_remove(st, Head(f.todo), f.key, fault)
            ELSE Store_put(st, Head(f.todo), f.key, f.data, fault)

TierCall(f, st, fault) ==
    CASE f.pc = "scan" -> Store_get(st, Head(f.todo), f.key, fault)
      [] f.pc = "backfill" -> Store_put(st, Head(f.todo), f.key, f.found, fault)
      [] f.pc = "fan" ->
            IF f.op = "remove" THEN Store_remove(st, Head(f.todo), f.key, fault)
            ELSE Store_put(st, Head(f.todo), f.key, f.data, fault)

\* The frame after its per-tier call handed back r.
Resume(f, r) ==
    IF Raised(r) THEN [f EXCEPT !.pc = "raised", !.exc = r.exc, !.todo = <<>>]
    ELSE IF f.pc = "scan" /\ r.ret # None
    THEN Settle([f EXCEPT !.found = r.ret, !.idx = Head(f.todo), !.pc = "backfill",
                          !.todo = Range(Head(f.todo))])
    ELSE Settle([f EXCEPT !.todo = Tail(f.todo)])

Begin(c, op, key, data) ==
    /\ threads[c].pc = "idle"
    /\ threads' = [threads EXCEPT ![c] = Settle(Enter(op, key, data))]
    /\ UNCHANGED <<caches, store, pre, last, shadow, landed>>

CallerGet == \E c \in DOMAIN threads, key \in Keys : Begin(c, "get", key, None)

CallerPut ==
    \E c \in DOMAIN threads, key \in Keys, data \in Vals : Begin(c, "put", key, data)

CallerRemove == \E c \in DOMAIN threads, key \in Keys : Begin(c, "remove", key, None)

CallerGetPut ==
    \E c \in DOMAIN threads, key \in Keys, g \in Vals : Begin(c, "get_put", key, g)

\* One per-tier call of caller c, in loop pc; its backing resource may fail.
TierStep(c, pc) ==
    LET f == threads[c]
        i == Head(f.todo)
    IN  /\ f.pc = pc
        /\ \E fault \in {NoFault, <<TierOp(f), i>>} :
            /\ fault = NoFault \/ CanFail(caches[i], TierOp(f), store[i][f.key] # None)
            /\ LET r == TierCall(f, store, fault)
               IN  /\ store' = r.store
                   /\ threads' = [threads EXCEPT ![c] = Resume(f, r)]
                   /\ landed' = IF TierOp(f) # "get" /\ ~Raised(r)
                                THEN [landed EXCEPT ![i][f.key] = c]
                                ELSE landed
        /\ UNCHANGED <<caches, pre, last, shadow>>

TierScan == \E c \in DOMAIN threads : TierStep(c, "scan")

TierBackfill == \E c \in DOMAIN threads : TierStep(c, "backfill")

TierFanOut == \E c \in DOMAIN threads : TierStep(c, "fan")

\* The caller has its result, or has caught the exception, and is free to
\* make another call.
CallerReturn ==
    \E c \in DOMAIN threads :
        /\ threads[c].pc \in {"done", "raised"}
        /\ threads' = [threads EXCEPT ![c] = Idle]
        /\ UNCHANGED <<caches, store, pre, last, shadow, landed>>

\* Two callers, each making one call on the chain [dict_cache, file_cache],
\* which holds anything under k1 and nothing under k2.
InitRace ==
    /\ caches = Layout(MaxTiers - 1, 0)
    /\ store \in [DOMAIN caches -> [Keys -> Vals \cup {None}]]
    /\ \A i \in DOMAIN caches : store[i]["k2"] = None
    /\ pre = store
    /\ last = NoCall
    /\ shadow = Untracked
    /\ threads = [c \in Callers |-> Idle]
    /\ landed = [i \in DOMAIN caches |-> [k \in Keys |-> "nobody"]]

NextRace ==
    \/ CallerGet
    \/ CallerPut
    \/ CallerRemove
    \/ CallerGetPut
    \/ TierScan
    \/ TierBackfill
    \/ TierFanOut

SpecRace == InitRace /\ [][NextRace]_vars

\* One caller making call after call, remove excepted, on a chain of up to
\* MaxTiers tiers that starts empty.
InitSteps ==
    \E n \in 0..MaxTiers :
        /\ InitStores(Layout(n, 0))
        /\ threads = [c \in {"c1"} |-> Idle]

NextSteps ==
    \/ CallerGet
    \/ CallerPut
    \/ CallerGetPut
    \/ TierScan
    \/ TierBackfill
    \/ TierFanOut
    \/ CallerReturn

SpecSteps == InitSteps /\ [][NextSteps]_vars

\* One FileCache or S3Cache, used alone, with any of the transformers on
\* either side, matching or not.
InitTransform ==
    \E kind \in {"file", "s3"} :
    \E put_transformer \in {"None", "encode", "encode_nonempty"} :
    \E get_transformer \in {"None", "read", "decode", "read_decode"} :
        /\ kind = "file" => get_transformer \in {"None", "decode"}
        /\ kind = "s3" => get_transformer # "decode"
        /\ InitWith([i \in {0} |->
                [kind |-> kind, verbose |-> TRUE, put_transformer |-> put_transformer,
                 get_transformer |-> get_transformer]])

SpecTransform == InitTransform /\ [][NextStandalone]_vars

----------------------------------------------------------------------------
(* Vocabulary of the properties.                                           *)

\* What tier i answers for key: the value it holds, None when it has none.
Held(st, i, key) == Cache_get(caches[i], st[i], key, FALSE).ret

\* The nearest tier that holds key; N when no tier does.
Nearest(st, key) ==
    IF \E i \in Tiers : Held(st, i, key) # None
    THEN CHOOSE i \in Tiers :
            /\ Held(st, i, key) # None
            /\ \A j \in Tiers : j < i => Held(st, j, key) = None
    ELSE N

\* The tiers that received a call of op, in the order of the calls.
Called(op) == SelectSeq(last.log, LAMBDA e : e[1] = op)

ChainCall(op) == last.target = Chain /\ last.op = op

----------------------------------------------------------------------------
(* Properties.                                                             *)

\* C1 (chain backfill): a ChainedCache.get(k) during which no backing
\* resource fails, made when the nearest tier holding k is h > 0 with value
\* v, returns v; afterwards every tier i < h holds v, every tier i >= h has
\* the content it had before, and no put went to a tier i >= h.
C1_Backfill ==
    (ChainCall("get") /\ last.fault = NoFault) =>
        LET k == last.key
            h == Nearest(pre, k)
        IN  (0 < h /\ h < N) =>
                /\ ~Raised(last)
                /\ last.ret = Held(pre, h, k)
                /\ \A i \in Tiers : i < h => Held(store, i, k) = Held(pre, h, k)
                /\ \A i \in Tiers : i >= h => store[i] = pre[i]
                /\ \A e \in 1..Len(last.log) :
                        last.log[e][1] = "put" => last.log[e][2] < h
                /\ Called("remove") = <<>>

\* C1 witness: the hit is at tier 1 of three; tier 2 holds another value.
C1_Witness ==
    /\ ChainCall("get") /\ ~Raised(last)
    /\ N = 3
    /\ Nearest(pre, last.key) = 1
    /\ pre[2][last.key] \notin {None, pre[1][last.key]}
    /\ store[0][last.key] = pre[1][last.key]

\* C2 (chain miss): a ChainedCache.get(k) made when no tier holds k, and
\* during which no backing resource fails, returns None without raising and
\* issues no put and no remove: every tier's content is as before.  The
\* chain over no stores at all is one such case.
C2_Miss ==
    (ChainCall("get") /\ last.fault = NoFault /\ Nearest(pre, last.key) = N) =>
        /\ ~Raised(last)
        /\ last.ret = None
        /\ Called("put") = <<>>
        /\ Called("remove") = <<>>
        /\ store = pre

\* C2 witness: a miss on a chain of three tiers that hold another key.
C2_Witness ==
    /\ ChainCall("get") /\ last.fault = NoFault
    /\ N = 3
    /\ Nearest(pre, last.key) = N
    /\ last.log = << <<"get", 0>>, <<"get", 1>>, <<"get", 2>> >>
    /\ \E k \in Keys : pre[2][k] # None

\* C2 witness, second case: a miss on the chain over no stores.
C2_WitnessEmpty == ChainCall("get") /\ N = 0 /\ last.ret = None /\ ~Raised(last)

\* C3 (hit at front): a ChainedCache.get(k) made when tier 0 holds k, tier 0
\* not failing, returns tier 0's value, queries tier 0 only and writes to no
\* tier, whatever the farther tiers hold.
C3_HitAtFront ==
    (ChainCall("get") /\ last.fault = NoFault /\ N > 0) =>
        (Held(pre, 0, last.key) # None =>
            /\ ~Raised(last)
            /\ last.ret = Held(pre, 0, last.key)
            /\ last.log = << <<"get", 0>> >>
            /\ store = pre)

\* C3 witness: tier 0 hits while tiers 1 and 2 hold a different value and
\* nothing at all.
C3_Witness ==
    /\ ChainCall("get") /\ last.fault = NoFault
    /\ N = 3
    /\ pre[0][last.key] # None
    /\ pre[1][last.key] \notin {None, pre[0][last.key]}
    /\ pre[2][last.key] = None
    /\ last.ret = pre[0][last.key]

\* C4 (put fan-out): a ChainedCache.put(k, v) during which no tier fails
\* returns; afterwards every tier holds v under k, whatever it held before,
\* and the per-tier calls were exactly one put per tier, in the order
\* n-1, ..., 0.
C4_PutFanOut ==
    (ChainCall("put") /\ last.fault = NoFault) =>
        /\ ~Raised(last)
        /\ \A i \in Tiers : Held(store, i, last.key) = last.data
        /\ last.log = [j \in 1..N |-> <<"put", N - j>>]

\* C4 witness: a put over three tiers that held k differently: one the
\* other value, one nothing.
C4_Witness ==
    /\ ChainCall("put") /\ ~Raised(last)
    /\ N = 3
    /\ \E i \in Tiers : pre[i][last.key] = None
    /\ \E i \in Tiers : pre[i][last.key] \notin {None, last.data}
    /\ \A i \in Tiers : store[i][last.key] = last.data

\* C5 (fan-out abort): when, during ChainedCache.put(k, v) or
\* ChainedCache.remove(k), the call on tier j fails, the exception reaches
\* the caller, every tier i > j has had the operation applied (holds v after
\* put, nothing after remove), and no tier i < j is called: it keeps the
\* content it had.
C5_FanOutAbort ==
    ((ChainCall("put") \/ ChainCall("remove")) /\ last.fault # NoFault) =>
        LET j == last.fault[2]
        IN  /\ Raised(last)
            /\ \A i \in Tiers : i > j =>
                    Held(store, i, last.key) =
                        (IF last.op = "put" THEN last.data ELSE None)
            /\ \A i \in Tiers : i < j => store[i] = pre[i]
            /\ \A e \in 1..Len(last.log) : last.log[e][2] >= j

\* C5 witness: a put fails at the middle tier of three; the farthest tier
\* has the new value, the nearest still its old one.
C5_Witness ==
    /\ ChainCall("put") /\ Raised(last)
    /\ N = 3
    /\ last.fault = <<"put", 1>>
    /\ store[2][last.key] = last.data
    /\ pre[2][last.key] # last.data
    /\ store[0][last.key] \notin {None, last.data}

\* C5 witness, remove: a remove fails at the middle tier of three.
C5_WitnessRemove ==
    /\ ChainCall("remove") /\ Raised(last)
    /\ N = 3
    /\ last.fault = <<"remove", 1>>
    /\ pre[2][last.key] # None /\ store[2][last.key] = None
    /\ store[0][last.key] # None

\* C6 (remove fan-out): after a ChainedCache.remove(k) during which no
\* backing resource fails, whichever tiers held k before, the call has
\* returned, no tier holds k, the per-tier removes went farthest tier first,
\* and a ChainedCache.get(k) made next returns None.
C6_RemoveFanOut ==
    (ChainCall("remove") /\ last.fault = NoFault) =>
        /\ ~Raised(last)
        /\ \A i \in Tiers : Held(store, i, last.key) = None
        /\ last.log = [j \in 1..N |-> <<"remove", N - j>>]
        /\ Self_get(Chain, store, last.key, NoFault).ret = None

\* C6 witness: a remove over three tiers of which only the middle one held k.
C6_Witness ==
    /\ ChainCall("remove") /\ ~Raised(last)
    /\ N = 3
    /\ pre[0][last.key] = None /\ pre[1][last.key] # None /\ pre[2][last.key] = None
    /\ store[1][last.key] = None

\* C7 as stated (a chain is one cache): from empty tiers, while every call
\* so far was a call on the chain that returned, the chain answers get(k)
\* with the value of the latest put(k, v) that no remove(k) followed, None
\* if there is none: with the value a single key -> value map would hold.
C7_AnyChain ==
    (shadow.ok /\ shadow.who = Chain) =>
        /\ \A k \in Keys : Self_get(Chain, store, k, NoFault).ret = shadow.map[k]
        /\ ChainCall("get") => last.ret = shadow.map[last.key]

\* C7 as amended: the same, for a chain of at least one tier (a chain over
\* no stores keeps nothing: its get returns None after any put).
C7_ChainIsOneMap == N >= 1 => C7_AnyChain

\* C7 witness: on three tiers, a get answers the second of two values put
\* under k, and the other key was put and removed.
C7_Witness ==
    /\ shadow.ok /\ shadow.who = Chain
    /\ N = 3
    /\ ChainCall("get")
    /\ last.ret = <<"str", "">>
    /\ \E k \in Keys : k # last.key /\ shadow.map[k] = None

StoreCall(op) == last.target # Chain /\ last.op = op

\* key is absent for target t: in store i, or in every tier of the chain.
Absent(t, st, key) ==
    IF t = Chain THEN Nearest(st, key) = N ELSE Held(st, t[2], key) = None

\* get on a store that neither fails for a missing key nor changes the store.
GetIsQuiet ==
    (StoreCall("get") /\ last.fault = NoFault) => (~Raised(last) /\ store = pre)

\* put overwrites whatever the key held.
PutOverwrites ==
    (StoreCall("put") /\ last.fault = NoFault) =>
        (~Raised(last) /\ store[0][last.key] = last.data)

\* C8 as stated (single-store map semantics): on one DictCache, FileCache or
\* S3Cache with no transformers, get(k) never fails for a missing key, never
\* changes the store, and returns exactly the value of the latest put(k, v)
\* that no remove(k) followed, None if there is none; put overwrites.
C8_EveryStoreReturnsTheValue ==
    /\ GetIsQuiet
    /\ PutOverwrites
    /\ (shadow.ok /\ StoreCall("get")) => last.ret = shadow.map[last.key]

\* What a store answers for a key whose latest value is v: an S3Cache with
\* no get_transformer hands out the response's body stream over v.
Answer(cfg, v) ==
    IF v # None /\ cfg.kind = "s3" /\ cfg.get_transformer = "None"
    THEN Body(v) ELSE v

\* C8 as amended: as stated for DictCache, FileCache and an S3Cache whose
\* get_transformer reads the body; an S3Cache with no get_transformer
\* returns, for a key that is there, the body stream over the latest value
\* instead of the value.
C8_StoreIsAMap ==
    /\ GetIsQuiet
    /\ PutOverwrites
    /\ (shadow.ok /\ StoreCall("get")) =>
            last.ret = Answer(caches[0], shadow.map[last.key])
    /\ shadow.ok =>
            \A k \in Keys :
                Store_get(store, 0, k, NoFault).ret = Answer(caches[0], shadow.map[k])

\* C8 witness: an S3Cache answers get with the second of two values put
\* under the key, after the other key was put and removed.
C8_Witness ==
    /\ shadow.ok /\ StoreCall("get")
    /\ caches[0] = S3Cfg("read")
    /\ last.ret = <<"str", "">>
    /\ \E k \in Keys : k # last.key /\ shadow.map[k] = None

\* C8 witness, second case: the S3Cache with no get_transformer.
C8_WitnessStream ==
    /\ shadow.ok /\ StoreCall("get")
    /\ caches[0] = S3Cfg("None")
    /\ last.ret = Body(<<"str", "a">>)

\* C9 (remove idempotence): a remove(k) on a store or on the chain, no
\* backing resource failing, returns; if k was absent it leaves every store
\* as it was; a second remove(k) changes nothing more, and get(k) returns
\* None after the first and after the second.
C9_RemoveIdempotent ==
    (last.op = "remove" /\ last.fault = NoFault) =>
        LET t == last.target
            again == Self_remove(t, store, last.key, NoFault)
        IN  /\ ~Raised(last)
            /\ Absent(t, pre, last.key) => store = pre
            /\ ~Raised(again)
            /\ again.store = store
            /\ Self_get(t, store, last.key, NoFault).ret = None
            /\ Self_get(t, again.store, last.key, NoFault).ret = None

\* C9 witness: a remove on a chain of three tiers none of which holds k.
C9_Witness ==
    /\ ChainCall("remove") /\ ~Raised(last)
    /\ N = 3
    /\ Absent(Chain, pre, last.key)
    /\ \E k \in Keys : pre[1][k] # None

\* C9 witness, second case: a remove on a FileCache that holds k.
C9_WitnessStore ==
    /\ StoreCall("remove") /\ ~Raised(last)
    /\ caches[last.target[2]].kind = "file"
    /\ pre[last.target[2]][last.key] # None
    /\ store[last.target[2]][last.key] = None

\* C10 as stated (get_put on a miss): when k is absent in the store, or in
\* every tier of the chain, get_put(k, generator), no backing resource
\* failing, invokes generator once, with k, and returns the generated value
\* g; afterwards get(k) returns g, and on a chain every tier holds g.
C10_AnyTarget ==
    (last.op = "get_put" /\ last.fault = NoFault /\ Absent(last.target, pre, last.key)) =>
        /\ ~Raised(last)
        /\ last.gen = <<last.key>>
        /\ last.ret = last.data
        /\ Self_get(last.target, store, last.key, NoFault).ret = last.data
        /\ last.target = Chain =>
                \A i \in Tiers : Held(store, i, last.key) = last.data

\* C10 as amended: the same, for a store and for a chain of at least one
\* tier (on the chain over no stores nothing is kept and get(k) returns None).
C10_GetPutOnMiss == (last.target = Chain => N >= 1) => C10_AnyTarget

\* C10 witness: a miss on a chain of three tiers, the generator giving "".
C10_Witness ==
    /\ ChainCall("get_put") /\ ~Raised(last)
    /\ N = 3
    /\ Absent(Chain, pre, last.key)
    /\ last.ret = <<"str", "">>
    /\ \A i \in Tiers : store[i][last.key] = <<"str", "">>

\* C10 witness, second case: a miss on a member store used alone.
C10_WitnessStore ==
    /\ StoreCall("get_put") /\ ~Raised(last)
    /\ Absent(last.target, pre, last.key)
    /\ store[last.target[2]][last.key] = last.data

\* C11 (get_put on a hit is get): when k is present, in the store or in
\* some tier of the chain, with any stored value, "" included,
\* get_put(k, generator), no backing resource failing, does what get(k)
\* does and no more: it returns the stored value, does not invoke generator
\* and issues no put of its own, so the stored value is not overwritten.
C11_HitIsGet ==
    (last.op = "get_put" /\ last.fault = NoFault
        /\ ~Absent(last.target, pre, last.key)) =>
        LET g == Self_get(last.target, pre, last.key, NoFault)
        IN  /\ ~Raised(last)
            /\ last.gen = <<>>
            /\ last.ret = g.ret
            /\ last.log = g.log
            /\ store = g.store

----------------------------------------------------------------------------
(* The verbose setting.                                                    *)

\* The cache object with the verbose setting of every store in it inverted.
RECURSIVE Flip(_)
Flip(o) ==
    IF o.kind = "chain"
    THEN [o EXCEPT !.caches = [j \in DOMAIN o.caches |-> Flip(o.caches[j])]]
    ELSE [o EXCEPT !.cfg = [o.cfg EXCEPT !.verbose = ~o.cfg.verbose]]

\* a and b returned the same value or raised the same failure, and left the
\* same contents in every store.
SameEffect(a, b) == a.ret = b.ret /\ a.exc = b.exc /\ a.store = b.store

\* C12 (verbose has no functional effect): every call, on a store or on a
\* chain, returns the same value, raises the same failure and leaves the
\* same store contents as the same call made from the same contents with
\* the verbose setting of every store inverted, whatever backing resource
\* fails.  No operation of a chain reads a verbose attribute of the chain:
\* get, put, remove and get_put on a ChainedCache, also on one that holds a
\* ChainedCache as a tier, raise nothing when no backing resource fails.
C12_VerboseHasNoEffect ==
    last # NoCall =>
        LET twin(o) == Invoke(Flip(o), last.op, pre, last.key, last.data, last.fault)
            nested == Invoke(Nested, last.op, pre, last.key, last.data, last.fault)
            done == [ret |-> last.ret, exc |-> last.exc, store |-> store]
        IN  /\ SameEffect(twin(Target(last.target)), done)
            /\ (last.target = Chain /\ last.fault = NoFault) => ~Raised(last)
            /\ (last.target = Chain /\ N >= 1) =>
                    /\ SameEffect(twin(Nested), nested)
                    /\ last.fault = NoFault => ~Raised(nested)

\* A chain with a verbose and a quiet store has run get_put on a miss: the
\* run printed messages that the run with the settings inverted does not
\* print in the same places.
C12_Witness ==
    /\ last.target = Chain /\ last.op = "get_put" /\ last.gen # <<>>
    /\ \E i, j \in Tiers : caches[i].verbose /\ ~caches[j].verbose
    /\ last.fx # <<>>
    /\ Invoke(Flip(Target(Chain)), last.op, pre, last.key, last.data, last.fault).fx
            # last.fx

----------------------------------------------------------------------------
(* Failures of the remote tier.                                            *)

\* The transformer applications among the effects of the last call.
Applied(name) == SelectSeq(last.fx, LAMBDA e : e[1] = name)

\* C13 (S3 not-found translation): S3Cache.get of a key the bucket has no
\* object for returns None without raising and without applying the
\* get_transformer; when the service call fails for any other reason, the
\* failure leaves get as it was raised and nothing is changed.  A chain get
\* takes a missing object of an S3Cache tier for a miss: it goes on to the
\* next tier, or, after the last tier, returns None.  When the get of an
\* S3Cache tier fails for another reason, the chain get raises that failure
\* at once: no farther tier is queried, no put is issued and every tier is
\* as before.
C13_S3NotFound ==
    LET k == last.key
        s3(i) == i \in Tiers /\ caches[i].kind = "s3"
        gets == Called("get")
    IN  /\ \A i \in Tiers : (last.target = Member(i) /\ last.op = "get" /\ s3(i)) =>
                /\ (last.fault = NoFault /\ pre[i][k] = None) =>
                        /\ ~Raised(last) /\ last.ret = None
                        /\ Applied("get_transformer") = <<>>
                        /\ store = pre
                /\ last.fault = <<"get", i>> =>
                        /\ last.exc = "ClientError"
                        /\ Applied("get_transformer") = <<>>
                        /\ store = pre
        /\ (ChainCall("get") /\ last.fault = NoFault) =>
                /\ ~Raised(last)
                /\ \A e \in 1..Len(gets) :
                        (s3(gets[e][2]) /\ pre[gets[e][2]][k] = None) =>
                            IF gets[e][2] + 1 < N
                            THEN e < Len(gets) /\ gets[e + 1] = <<"get", gets[e][2] + 1>>
                            ELSE last.ret = None /\ store = pre
        /\ \A i \in Tiers : (ChainCall("get") /\ last.fault = <<"get", i>> /\ s3(i)) =>
                /\ last.exc = "ClientError"
                /\ gets = [j \in 1..(i + 1) |-> <<"get", j - 1>>]
                /\ Called("put") = <<>>
                /\ store = pre

\* C13 witness: the S3Cache tier has no object for the key, a farther tier
\* holds it, and the chain get returned that tier's value.
C13_Witness ==
    /\ ChainCall("get") /\ last.fault = NoFault /\ ~Raised(last)
    /\ \E i \in Tiers :
            /\ caches[i].kind = "s3" /\ pre[i][last.key] = None
            /\ i < Nearest(pre, last.key) /\ Nearest(pre, last.key) < N
            /\ last.ret = Held(pre, Nearest(pre, last.key), last.key)
            /\ store[i][last.key] # None

\* C13 witness, failure: the get of the S3Cache tier failed while a farther
\* tier held the key, and the chain get raised.
C13_WitnessFailure ==
    /\ ChainCall("get") /\ last.exc = "ClientError"
    /\ \E i \in Tiers :
            /\ caches[i].kind = "s3" /\ last.fault = <<"get", i>>
            /\ \E j \in Tiers : j > i /\ pre[j][last.key] # None
            /\ \A j \in Tiers : j < i => pre[j][last.key] = None

----------------------------------------------------------------------------
(* Interleaved callers.                                                    *)

\* Caller c made op and has its result.
Finished(c, op) == threads[c].pc = "done" /\ threads[c].op = op

\* C14 (no generation dedup): when two callers have both completed
\* get_put on the same key of the same chain, interleaved between per-tier
\* calls, and the get of each returned None (or a falsy value), then each
\* invoked its generator and returned its own generated value, and every tier holds
\* the generated value of the caller whose put landed there last, which
\* need not be the value the other caller returned.
C14_NoDedup ==
    \A a, b \in DOMAIN threads :
        (/\ a # b
         /\ Finished(a, "get_put") /\ Finished(b, "get_put")
         /\ threads[a].key = threads[b].key
         /\ Falsy(threads[a].found) /\ Falsy(threads[b].found)) =>
            /\ threads[a].gen = <<threads[a].key>>
            /\ threads[a].ret = threads[a].data
            /\ \A i \in Tiers :
                    /\ landed[i][threads[a].key] \in {a, b}
                    /\ Held(store, i, threads[a].key)
                            = threads[landed[i][threads[a].key]].data

\* C14 witness: both callers missed k2, both generated and wrote; the two
\* tiers end up with different values and caller b returned a value that
\* the nearest tier does not hold.
C14_Witness ==
    \E a, b \in DOMAIN threads :
        /\ a # b
        /\ Finished(a, "get_put") /\ Finished(b, "get_put")
        /\ threads[a].key = "k2" /\ threads[b].key = "k2"
        /\ threads[a].found = None /\ threads[b].found = None
        /\ threads[a].gen # <<>> /\ threads[b].gen # <<>>
        /\ Held(store, 0, "k2") = threads[a].data
        /\ Held(store, 1, "k2") = threads[b].data
        /\ threads[b].ret # Held(store, 0, "k2")

----------------------------------------------------------------------------
(* After an aborted put.                                                   *)

\* The chain put of v2 under k was aborted by the failure of tier j's put,
\* with at least one tier farther than j.
PutAbortedAt(j) ==
    /\ ChainCall("put") /\ Raised(last)
    /\ last.fault = <<"put", j>>
    /\ j \in Tiers /\ j < N - 1

\* The next call is get(k), and nothing fails in it.
NextGet == Self_get(Chain, store, last.key, NoFault)

C15_WitnessCorrected ==
    /\ PutAbortedAt(1) /\ N = 3
    /\ Nearest(store, last.key) = 2
    /\ NextGet.ret = last.data
    /\ Held(NextGet.store, 0, last.key) = last.data

\* What a completed put or remove of caller b leaves in a tier.
Written(b) == IF threads[b].op = "put" THEN threads[b].data ELSE None

\* C16 (backfill race): when a chain get(k) that hit a value v1 at a tier
\* h > 0 and a chain put(k, v2), or remove(k), of another caller have both
\* completed, interleaved between per-tier calls, the farthest tier holds
\* v2 (holds nothing, after remove), and every other tier holds what
\* landed there last: v1 where the backfill of get came after the put or
\* remove, so that a nearer tier can hold v1 while the farthest holds v2.
\* Once tier 0 holds v1 in this way, chain gets return v1 and change
\* nothing.
C16_BackfillRace ==
    \A a, b \in DOMAIN threads :
        (/\ Finished(a, "get") /\ threads[a].idx > 0
         /\ Finished(b, "put") \/ Finished(b, "remove")
         /\ threads[a].key = threads[b].key) =>
            LET k == threads[a].key
                v1 == threads[a].found
            IN  /\ Held(store, N - 1, k) = Written(b)
                /\ \A i \in Tiers :
                        /\ landed[i][k] \in {a, b}
                        /\ landed[i][k] = a => i < threads[a].idx
                        /\ Held(store, i, k) = IF landed[i][k] = a THEN v1 ELSE Written(b)
                /\ landed[0][k] = a =>
                        /\ Self_get(Chain, store, k, NoFault).ret = v1
                        /\ Self_get(Chain, store, k, NoFault).store = store

\* C16 witness: get hit v1 at tier 1, put(k, v2) completed, and get's
\* backfill landed last at tier 0: tier 0 holds v1, tier 1 holds v2, and
\* the next chain get returns v1.
C16_Witness ==
    \E a, b \in DOMAIN threads :
        /\ Finished(a, "get") /\ threads[a].idx = 1
        /\ Finished(b, "put") /\ threads[a].key = threads[b].key
        /\ threads[a].found # threads[b].data
        /\ Held(store, 0, threads[a].key) = threads[a].found
        /\ Held(store, 1, threads[a].key) = threads[b].data
        /\ Self_get(Chain, store, threads[a].key, NoFault).ret = threads[a].found

\* C16 witness, remove: the key is gone from the farthest tier and back in
\* tier 0.
C16_WitnessRemove ==
    \E a, b \in DOMAIN threads :
        /\ Finished(a, "get") /\ threads[a].idx = 1
        /\ Finished(b, "remove") /\ threads[a].key = threads[b].key
        /\ Held(store, 0, threads[a].key) = threads[a].found
        /\ Held(store, 1, threads[a].key) = None
        /\ Self_get(Chain, store, threads[a].key, NoFault).ret = threads[a].found

----------------------------------------------------------------------------
(* Transformers.                                                           *)

\* What get hands to the get_transformer for stored content raw: the text
\* read from the file; the body stream of the fetched S3 object.
Fetched(cfg, raw) == IF cfg.kind = "s3" THEN Body(raw) ELSE raw

\* The stored content itself.
Stored(cfg, raw) == raw

\* t applied to x, where an unset t is the identity.
Through(t, x) == IF t = "None" THEN [ret |-> x, exc |-> "None"] ELSE Call(t, x)

\* The transform pipeline of a FileCache or S3Cache, where get decodes
\* Input(cfg, raw) for stored content raw.
Pipeline(Input(_, _)) ==
    \A i \in Tiers :
        (last.target = Member(i) /\ last.fault = NoFault
            /\ caches[i].kind \in {"file", "s3"}) =>
            LET cfg == caches[i]
                k == last.key
                enc == Through(cfg.put_transformer, last.data)
                in == Input(cfg, pre[i][k])
                dec == Through(cfg.get_transformer, in)
                again == Store_get(store, i, k, NoFault)
            IN  /\ last.op = "put" =>
                    /\ Applied("put_transformer") =
                            IF cfg.put_transformer = "None" THEN <<>>
                            ELSE << <<"put_transformer", last.data>> >>
                    /\ last.exc = enc.exc
                    /\ store = IF Raised(enc) THEN pre
                               ELSE [pre EXCEPT ![i][k] = enc.ret]
                    /\ (~Raised(enc)
                        /\ Through(cfg.get_transformer, Input(cfg, enc.ret)).ret = last.data)
                            => ~Raised(again) /\ again.ret = last.data
                /\ last.op = "get" =>
                    /\ store = pre
                    /\ Applied("put_transformer") = <<>>
                    /\ IF pre[i][k] = None
                       THEN /\ ~Raised(last) /\ last.ret = None
                            /\ Applied("get_transformer") = <<>>
                       ELSE /\ last.ret = dec.ret /\ last.exc = dec.exc
                            /\ Applied("get_transformer") =
                                    IF cfg.get_transformer = "None" THEN <<>>
                                    ELSE << <<"get_transformer", in>> >>

\* C17 as the spec states it: put stores encode(v), encode applied once
\* and before the write; a successful get returns decode(raw), raw being
\* what the backing store holds for k, decode applied once and not at all
\* on a miss; an unset transform is the identity; whenever
\* decode(encode(v)) = v, put then get returns v; a failure raised by
\* encode leaves put and the stored content is unchanged.
C17_PipelineOfStored == Pipeline(Stored)

\* C17, amended: as above, except that what get decodes, and returns as it
\* is when the get_transformer is unset, is the fetched content: for a
\* FileCache the content read from the file, for an S3Cache the body stream
\* of the fetched object, not the stored bytes.  Put then get returns v
\* whenever decode, applied to the content fetched for encode(v), gives v.
C17_PipelineOfFetched == Pipeline(Fetched)

\* C17 witness: a put through encode, and the get that follows it returns
\* the value put, through a decode that reads the fetched body.
C17_Witness ==
    /\ StoreCall("put") /\ ~Raised(last)
    /\ caches[0].kind = "s3"
    /\ caches[0].put_transformer = "encode" /\ caches[0].get_transformer = "read_decode"
    /\ store[0][last.key] = <<"enc", last.data>>
    /\ Store_get(store, 0, last.key, NoFault).ret = last.data

\* C17 witness, failure: encode refused the value while the file held an
\* earlier one, which is still there.
C17_WitnessFailure ==
    /\ StoreCall("put") /\ last.exc = "ValueError"
    /\ caches[0].kind = "file"
    /\ pre[0][last.key] # None
    /\ store = pre

----------------------------------------------------------------------------
(* Nested chains.                                                          *)

\* The last call, made from the same contents on the chain nested.
OnNested(nested) == Invoke(nested, last.op, pre, last.key, last.data, NoFault)

\* C18 (nested chains flatten): every get, put, remove or get_put that
\* completes without failure on the flat chain [A, B, C, ...] returns the
\* same value and leaves the same content in every store as the same call
\* made from the same contents on the nested chain [A, Chain([B, C, ...])],
\* and on [Chain([A, B, ...]), C], which does not fail either.  As the
\* stores are then the same again, so it is for every sequence of calls.
C18_NestedFlattens ==
    (last.target = Chain /\ last.fault = NoFault /\ ~Raised(last) /\ N >= 1) =>
        \A nested \in {Nested, NestedFront} :
            /\ ~Raised(OnNested(nested))
            /\ OnNested(nested).ret = last.ret
            /\ OnNested(nested).store = store

\* C18 witness: only C of [A, B, C] holds the key; the flat get backfilled
\* A and B, and so did the get on [A, Chain([B, C])], whose per-tier calls
\* came in another order.
C18_Witness ==
    /\ ChainCall("get") /\ ~Raised(last) /\ last.fault = NoFault
    /\ N = 3 /\ Nearest(pre, last.key) = 2
    /\ Held(OnNested(Nested).store, 0, last.key) = Held(pre, 2, last.key)
    /\ Held(OnNested(Nested).store, 1, last.key) = Held(pre, 2, last.key)
    /\ OnNested(Nested).log # last.log

----------------------------------------------------------------------------
(* The farthest tier.                                                      *)

\* C19 (the farthest tier misses no cached key): on a chain that starts
\* with every tier empty and is used through chain-level put, get and
\* get_put only, in every state, the states between two per-tier calls of
\* a fan-out or a backfill and the states a failed per-tier call leaves
\* included, every key that some tier holds is held by the farthest tier.
C19_FarthestHoldsAll ==
    \A k \in Keys : \A i \in Tiers :
        store[i][k] # None => store[N - 1][k] # None

\* C19 witness: inside the fan-out of a put on three tiers, when the
\* farthest tier has the key and the nearest has not got it yet.
C19_Witness ==
    \E c \in DOMAIN threads :
        /\ N = 3
        /\ threads[c].op = "put" /\ threads[c].pc = "fan"
        /\ threads[c].todo = <<1, 0>>
        /\ store[2][threads[c].key] # None
        /\ store[0][threads[c].key] = None

\* C19 witness, failure: the put of tier 1 failed and ended the chain put;
\* the farthest tier has the key, the nearer tiers have not.
C19_WitnessFailure ==
    \E c \in DOMAIN threads :
        /\ N = 3
        /\ threads[c].op = "put" /\ threads[c].pc = "raised"
        /\ store[2][threads[c].key] # None
        /\ store[1][threads[c].key] = None
        /\ store[0][threads[c].key] = None

----------------------------------------------------------------------------
(* Frame.                                                                  *)

\* C20 (per-key frame): every step, which is one whole get, put, remove or
\* get_put for a key k on a member store or on the chain, with its
\* backfill or fan-out, completed or aborted by a failing tier, or the
\* return of a call, leaves what every tier holds under every key other
\* than k as it was, and leaves the chain's sequence of tiers as it was.
C20_PerKeyFrame ==
    [][/\ caches' = caches
       /\ DOMAIN store' = DOMAIN caches
       /\ \A i \in Tiers : \A k \in Keys :
            k # last'.key => store'[i][k] = store[i][k]]_vars

\* C20 witness: a chain get backfilled k into tier 0, which held the other
\* key and holds it still.
C20_Witness ==
    /\ ChainCall("get") /\ ~Raised(last) /\ N = 3
    /\ Nearest(pre, last.key) = 2
    /\ store[0][last.key] # pre[0][last.key]
    /\ \E k \in Keys :
            /\ k # last.key
            /\ pre[0][k] # None
            /\ store[0][k] = pre[0][k]

\* C20 witness, failure: a chain put aborted by a tier, the other key held
\* on both sides of the failing tier.
C20_WitnessAborted ==
    /\ ChainCall("put") /\ Raised(last) /\ N = 3
    /\ store[2][last.key] # pre[2][last.key]
    /\ \E k \in Keys :
            /\ k # last.key
            /\ pre[0][k] # None /\ pre[2][k] # None
            /\ store[0][k] = pre[0][k] /\ store[2][k] = pre[2][k]

====
